---- MODULE Spec2Model ----
(***************************************************************************)
(* DC craft events tracker: the month calendar (calendarPage.js) and the   *)
(* event submission form (eventSubmissionForm.js), as state machines.      *)
(*                                                                         *)
(* A JavaScript Date is modelled by its local day number (days since       *)
(* 1970-01-01); the constructor and the getters are the ECMAScript         *)
(* MakeDay / YearFromTime / MonthFromTime / DateFromTime / WeekDay          *)
(* algorithms.  Time of day is never read by the components and is left    *)
(* out.                                                                    *)
(***************************************************************************)
EXTENDS Integers, Sequences, FiniteSets, TLC

VARIABLES
  currentDate,     \* calendarPage.js: month cursor (a Date, as a day number)
  allEvents,       \* calendarPage.js: event mapping, date key -> events, in key insertion order
  filteredEvents,  \* calendarPage.js: bucket mapping, day of month -> events
  hoveredEvent,    \* calendarPage.js: Null or [day, eventIndex, event]
  modalEvent,      \* calendarPage.js: Null or an event record
  isMobile,        \* calendarPage.js: window.innerWidth <= 640 at the last resize
  fetchState,      \* "pending" while the feed request is outstanding, then the kind of its response
  filterPending,   \* TRUE when a render committed and the filter effect has yet to run
  crashed,         \* TRUE once an uncaught error has unmounted the React tree
  lastOp           \* history: the last operation and its arguments

VARIABLES
  formData,        \* eventSubmissionForm.js: the form draft
  errors,          \* eventSubmissionForm.js: one error text per field
  isSubmitted,     \* eventSubmissionForm.js: success confirmation shown
  isSubmitting,    \* eventSubmissionForm.js: a POST is outstanding
  apiError,        \* eventSubmissionForm.js: submit-failed banner text
  inflight,        \* the outstanding POSTs (the records sent), oldest first
  timers,          \* number of pending auto-hide timeouts
  formOp           \* history: the last form operation

VARIABLES
  showTimeOptions, \* timeSelector.js: the option list is open
  timeFormat       \* timeSelector.js: "AM" or "PM", as text

VARIABLES
  utcOffset,       \* hours the browser's local time is ahead of UTC
  today,           \* date picker: the current local calendar day (a day number)
  currentMonth,    \* date picker: the month on display (a Date, as a day number)
  selectedDate,    \* date picker: <<>> (null) or <<day number>>
  showDatePicker,  \* date picker: the calendar is open
  viewMode,        \* date picker: "days" or "months"
  dateOp           \* history: the last date picker operation

VARIABLES
  historyEntries,  \* the session history of the browser tab: paths, oldest first
  historyIndex,    \* position of the current entry in historyEntries
  activeTab,       \* navigation tabs: the highlighted tab
  navOp            \* history: the last navigation operation

timeVars == <<showTimeOptions, timeFormat>>

dateVars == <<utcOffset, today, currentMonth, selectedDate, showDatePicker, viewMode, dateOp>>

navVars == <<historyEntries, historyIndex, activeTab, navOp>>

widgetVars == <<timeVars, dateVars, navVars>>

formVars == <<formData, errors, isSubmitted, isSubmitting, apiError, inflight, timers, formOp>>

calVars == <<currentDate, allEvents, filteredEvents, hoveredEvent, modalEvent,
             isMobile, fetchState, filterPending, crashed, lastOp>>

(***************************************************************************)
(* Bounds                                                                  *)
(***************************************************************************)
\* months are counted as year * 12 + month (month 0-based)
FirstMonth == 24288
LastMonth == 24290
NavFirstYear == 2022
NavLastYear == 2025
MaxFeedLen == 2
MaxOrderLen == 3
MaxHistory == 4
\* the months the date picker is navigated over: December 2023 to January 2025
PickerFirstMonth == 24287
PickerLastMonth == 24300

Null == [null |-> TRUE]

(***************************************************************************)
(* ECMAScript date arithmetic                                              *)
(***************************************************************************)
\* reference calendar, used to state properties (not used by the model of the code)
IsLeapRef(y) == (y % 4 = 0 /\ y % 100 # 0) \/ y % 400 = 0

DaysInMonthRef(y, m) ==
  IF m = 1 THEN (IF IsLeapRef(y) THEN 29 ELSE 28)
  ELSE IF m \in {3, 5, 8, 10} THEN 30 ELSE 31

\* Sakamoto's weekday formula, month 1-based, 0 = Sunday
SakamotoT == <<0, 3, 2, 5, 0, 3, 5, 1, 4, 6, 2, 4>>

WeekdayRef(y, m1, d) ==
  LET yy == IF m1 < 3 THEN y - 1 ELSE y
  IN (yy + (yy \div 4) - (yy \div 100) + (yy \div 400) + SakamotoT[m1] + d) % 7

DaysInYear(y) ==
  IF y % 4 # 0 THEN 365
  ELSE IF y % 100 # 0 THEN 366
  ELSE IF y % 400 # 0 THEN 365 ELSE 366

DayFromYear(y) ==
  365 * (y - 1970) + ((y - 1969) \div 4) - ((y - 1901) \div 100) + ((y - 1601) \div 400)

InLeapYearOf(y) == IF DaysInYear(y) = 366 THEN 1 ELSE 0

\* day within the year on which month m (0-based) starts
MonthStart(y, m) ==
  LET l == InLeapYearOf(y)
  IN CASE m = 0 -> 0
       [] m = 1 -> 31
       [] m = 2 -> 59 + l
       [] m = 3 -> 90 + l
       [] m = 4 -> 120 + l
       [] m = 5 -> 151 + l
       [] m = 6 -> 181 + l
       [] m = 7 -> 212 + l
       [] m = 8 -> 243 + l
       [] m = 9 -> 273 + l
       [] m = 10 -> 304 + l
       [] m = 11 -> 334 + l
       [] m = 12 -> 365 + l

\* MakeDay(year, month, date): month and date may lie outside their ranges
MakeDay(year, month, date) ==
  LET ym == year + (month \div 12)
      mn == month % 12
  IN DayFromYear(ym) + MonthStart(ym, mn) + date - 1

\* the year y with DayFromYear(y) <= t < DayFromYear(y + 1); it lies between
\* the two estimates for years of 366 and of 365 days
YearFromDay(t) ==
  CHOOSE y \in (1970 + (t \div 366)) .. (1970 + (t \div 365)) :
    DayFromYear(y) <= t /\ t < DayFromYear(y + 1)

DayWithinYear(t) == t - DayFromYear(YearFromDay(t))

MonthFromDay(t) ==
  LET y == YearFromDay(t)
      dw == DayWithinYear(t)
  IN CHOOSE m \in 0 .. 11 : MonthStart(y, m) <= dw /\ dw < MonthStart(y, m + 1)

DateFromDay(t) == DayWithinYear(t) - MonthStart(YearFromDay(t), MonthFromDay(t)) + 1

WeekDay(t) == (t + 4) % 7

\* new Date(year, month, day)
NewDate(year, month, day) == MakeDay(year, month, day)

getFullYear(t) == YearFromDay(t)
getMonth(t) == MonthFromDay(t)
getDate(t) == DateFromDay(t)
getDay(t) == WeekDay(t)

\* date.setMonth(month): MakeDay(year of date, month, day of date)
setMonth(t, month) == MakeDay(YearFromDay(t), month, DateFromDay(t))

MonthIndex(t) == getFullYear(t) * 12 + getMonth(t)

(***************************************************************************)
(* Feed: event records and responses                                       *)
(***************************************************************************)
\* the text "YYYY-MM-DD" with the digit groups y, m, d
DateStr(y, m, d) == [kind |-> "string", y |-> y, m |-> m, d |-> d]
\* the same day written without leading zeros ("2024-3-1"): another text,
\* hence another key, with the same digit groups after split('-').map(Number)
DateStrUnpadded(y, m, d) == [kind |-> "string", y |-> y, m |-> m, d |-> d, text |-> "unpadded"]
\* a record without a date field, and a record whose date is a number
DateUndefined == [kind |-> "undefined"]
DateNumber == [kind |-> "number"]

FeedDates ==
  { DateStr(2024, 2, 30), DateStr(2024, 3, 1), DateStr(2023, 3, 1),
    DateUndefined, DateNumber }

\* found_events arrays: the record at position i carries id i
FoundEvents ==
  UNION { { [i \in 1 .. n |-> [id |-> i, date |-> f[i]]] : f \in [1 .. n -> FeedDates] }
          : n \in 0 .. MaxFeedLen }

FeedResponses ==
  { [kind |-> k, found |-> <<>>] :
      k \in {"reject", "non2xx", "badjson", "badbody", "nofound", "notarray"} }
  \cup { [kind |-> "events", found |-> f] : f \in FoundEvents }

(***************************************************************************)
(* calendarPage.js: pure parts                                             *)
(***************************************************************************)
EmptyCell == 0

\* goToPreviousMonth's updater
PreviousMonthDate(prev) == setMonth(prev, getMonth(prev) - 1)

\* variant: the month is advanced in place, keeping the day of the month
NextMonthDateSetMonth(prev) == setMonth(prev, getMonth(prev) + 1)

\* goToNextMonth's updater
NextMonthDate(prev) == NewDate(getFullYear(prev), getMonth(prev) + 1, 1)

\* variant: the last week row is completed with placeholders
generateCalendarDaysPadded(cur) ==
  LET year == getFullYear(cur)
      month == getMonth(cur)
      startDay == getDay(NewDate(year, month, 1))
      totalDays == getDate(NewDate(year, month + 1, 0))
      pad == (7 - ((startDay + totalDays) % 7)) % 7
  IN [i \in 1 .. startDay |-> EmptyCell] \o [i \in 1 .. totalDays |-> i]
     \o [i \in 1 .. pad |-> EmptyCell]

generateCalendarDays(cur) ==
  LET year == getFullYear(cur)
      month == getMonth(cur)
      firstDay == NewDate(year, month, 1)
      startDay == getDay(firstDay)
      totalDays == getDate(NewDate(year, month + 1, 0))
  IN [i \in 1 .. startDay |-> EmptyCell] \o [i \in 1 .. totalDays |-> i]

\* fetchEvents: found_events grouped by date key, keys in insertion order
RECURSIVE AddToKey(_, _)
AddToKey(entries, event) ==
  IF entries = <<>> THEN << [key |-> event.date, events |-> <<event>>] >>
  ELSE IF Head(entries).key = event.date
       THEN << [key |-> event.date, events |-> Append(Head(entries).events, event)] >>
            \o Tail(entries)
       ELSE << Head(entries) >> \o AddToKey(Tail(entries), event)

RECURSIVE GroupByDate(_, _)
GroupByDate(entries, found) ==
  IF found = <<>> THEN entries
  ELSE GroupByDate(AddToKey(entries, Head(found)), Tail(found))

\* the events of the mapping in the order Object.keys(...).forEach visits them
RECURSIVE Flatten(_)
Flatten(entries) ==
  IF entries = <<>> THEN <<>> ELSE Head(entries).events \o Flatten(Tail(entries))

\* event.date.split('-') throws when date is undefined or not a string
SplitThrows(event) == event.date.kind # "string"

\* variant: the month of the text is taken as 0-based
EventDateNoOffset(event) == NewDate(event.date.y, event.date.m, event.date.d)

\* new Date(year, month - 1, day) of the event's date text
EventDate(event) == NewDate(event.date.y, event.date.m - 1, event.date.d)

InCurrentMonth(event, cur) ==
  /\ getMonth(EventDate(event)) = getMonth(cur)
  /\ getFullYear(EventDate(event)) = getFullYear(cur)

Days == 1 .. 31

\* the filter effect's processedEvents; a day without a bucket maps to <<>>
FilterForMonth(entries, cur) ==
  LET evs == Flatten(entries)
      InBucket(day, e) == InCurrentMonth(e, cur) /\ getDate(EventDate(e)) = day
      RECURSIVE Pick(_, _)
      Pick(s, day) ==
        IF s = <<>> THEN <<>>
        ELSE IF InBucket(day, Head(s)) THEN <<Head(s)>> \o Pick(Tail(s), day)
             ELSE Pick(Tail(s), day)
  IN [day \in Days |-> Pick(evs, day)]

FilterThrows(entries) == \E i \in 1 .. Len(Flatten(entries)) : SplitThrows(Flatten(entries)[i])

NoBuckets == [day \in Days |-> <<>>]

\* the response kinds whose handling throws inside the try block
FetchFails(resp) == resp.kind \in {"reject", "non2xx", "badjson", "badbody"}

\* variant: a found_events that is not an array is taken as a single record
ProcessedEventsNoArrayCheck(resp) ==
  IF resp.kind = "events" THEN GroupByDate(<<>>, resp.found)
  ELSE IF resp.kind = "notarray" THEN GroupByDate(<<>>, <<[id |-> 1, date |-> DateUndefined]>>)
  ELSE <<>>

\* fetchEvents' processedEvents: empty unless found_events is an array
ProcessedEvents(resp) ==
  IF resp.kind = "events" THEN GroupByDate(<<>>, resp.found) ELSE <<>>

\* variant: every click that reaches the overlay closes the modal
AfterOverlayClickAlways(onOverlay, modal) == Null

\* handleOverlayClick: only a click on the overlay itself closes the modal
AfterOverlayClick(onOverlay, modal) == IF onOverlay THEN Null ELSE modal

(***************************************************************************)
(* calendarPage.js: operations                                             *)
(***************************************************************************)
\* a navigation records the cursor it started from, a pointer event its event item
Op(name, a, b) == [op |-> name, a |-> a, b |-> b]

\* the component is mounted and every effect of the last render has run
Idle == ~crashed /\ ~filterPending

Widths == {320, 640, 641, 1024}

\* state after the first render and its effects: the feed request is out,
\* the filter effect has run on the empty mapping
CalendarInit(dates) ==
  /\ currentDate \in dates
  /\ allEvents = <<>>
  /\ filteredEvents = NoBuckets
  /\ hoveredEvent = Null
  /\ modalEvent = Null
  /\ isMobile \in BOOLEAN
  /\ fetchState = "pending"
  /\ filterPending = FALSE
  /\ crashed = FALSE
  /\ lastOp = Op("mount", 0, 0)

goToPreviousMonth(lo, hi) ==
  /\ Idle
  /\ MonthIndex(PreviousMonthDate(currentDate)) \in lo .. hi
  /\ currentDate' = PreviousMonthDate(currentDate)
  /\ filterPending' = TRUE
  /\ lastOp' = Op("goToPreviousMonth", currentDate, 0)
  /\ UNCHANGED <<allEvents, filteredEvents, hoveredEvent, modalEvent, isMobile,
                 fetchState, crashed>>

goToNextMonth(lo, hi) ==
  /\ Idle
  /\ MonthIndex(NextMonthDate(currentDate)) \in lo .. hi
  /\ currentDate' = NextMonthDate(currentDate)
  /\ filterPending' = TRUE
  /\ lastOp' = Op("goToNextMonth", currentDate, 0)
  /\ UNCHANGED <<allEvents, filteredEvents, hoveredEvent, modalEvent, isMobile,
                 fetchState, crashed>>

\* completion of fetchEvents with response resp
fetchEvents(resp) ==
  /\ Idle
  /\ fetchState = "pending"
  /\ fetchState' = resp.kind
  /\ lastOp' = Op("fetchEvents", 0, 0)
  /\ IF FetchFails(resp)
     THEN \* caught and logged; setAllEvents is not reached
          UNCHANGED <<allEvents, filterPending>>
     ELSE /\ allEvents' = ProcessedEvents(resp)
          /\ filterPending' = TRUE
  /\ UNCHANGED <<currentDate, filteredEvents, hoveredEvent, modalEvent, isMobile,
                 crashed>>

\* the effect on [currentDate, allEvents]; an error thrown in it is not
\* caught by any boundary, so React unmounts the tree
filterEffect ==
  /\ filterPending
  /\ ~crashed
  /\ filterPending' = FALSE
  /\ IF FilterThrows(allEvents)
     THEN crashed' = TRUE /\ UNCHANGED filteredEvents
     ELSE filteredEvents' = FilterForMonth(allEvents, currentDate) /\ UNCHANGED crashed
  /\ UNCHANGED <<currentDate, allEvents, hoveredEvent, modalEvent, isMobile,
                 fetchState, lastOp>>

\* an event item is rendered for every entry of every bucket
EventItem(day, idx) == day \in Days /\ idx \in 1 .. Len(filteredEvents[day])

onMouseEnter(day, idx) ==
  /\ Idle
  /\ EventItem(day, idx)
  /\ hoveredEvent' = IF ~isMobile
                     THEN [day |-> day, eventIndex |-> idx, event |-> filteredEvents[day][idx]]
                     ELSE hoveredEvent
  /\ lastOp' = Op("onMouseEnter", day, idx)
  /\ UNCHANGED <<currentDate, allEvents, filteredEvents, modalEvent, isMobile,
                 fetchState, filterPending, crashed>>

onMouseLeave(day, idx) ==
  /\ Idle
  /\ EventItem(day, idx)
  /\ hoveredEvent' = IF ~isMobile THEN Null ELSE hoveredEvent
  /\ lastOp' = Op("onMouseLeave", day, idx)
  /\ UNCHANGED <<currentDate, allEvents, filteredEvents, modalEvent, isMobile,
                 fetchState, filterPending, crashed>>

onClick(day, idx) ==
  /\ Idle
  /\ EventItem(day, idx)
  /\ modalEvent' = IF isMobile THEN filteredEvents[day][idx] ELSE modalEvent
  /\ lastOp' = Op("onClick", day, idx)
  /\ UNCHANGED <<currentDate, allEvents, filteredEvents, hoveredEvent, isMobile,
                 fetchState, filterPending, crashed>>

\* the modal is rendered whenever modalEvent is set
ModalShown == ~crashed /\ modalEvent # Null

closeButton ==
  /\ Idle
  /\ ModalShown
  /\ modalEvent' = Null
  /\ lastOp' = Op("closeButton", 0, 0)
  /\ UNCHANGED <<currentDate, allEvents, filteredEvents, hoveredEvent, isMobile,
                 fetchState, filterPending, crashed>>

\* a click that reaches the overlay; onOverlay: the overlay itself was the target
handleOverlayClick(onOverlay) ==
  /\ Idle
  /\ ModalShown
  /\ modalEvent' = AfterOverlayClick(onOverlay, modalEvent)
  /\ lastOp' = Op(IF onOverlay THEN "overlayClick" ELSE "contentClick", 0, 0)
  /\ UNCHANGED <<currentDate, allEvents, filteredEvents, hoveredEvent, isMobile,
                 fetchState, filterPending, crashed>>

handleKey(key) ==
  /\ Idle
  /\ modalEvent' = IF key = "Escape" THEN Null ELSE modalEvent
  /\ lastOp' = Op(key, IF modalEvent # Null THEN 1 ELSE 0, 0)
  /\ UNCHANGED <<currentDate, allEvents, filteredEvents, hoveredEvent, isMobile,
                 fetchState, filterPending, crashed>>

handleResize(innerWidth) ==
  /\ Idle
  /\ isMobile' = (innerWidth <= 640)
  /\ lastOp' = Op("handleResize", 0, 0)
  /\ UNCHANGED <<currentDate, allEvents, filteredEvents, hoveredEvent, modalEvent,
                 fetchState, filterPending, crashed>>

\* the detail overlay of event item (day, idx) is rendered
PopupShown(day, idx) ==
  /\ ~crashed
  /\ EventItem(day, idx)
  /\ ~isMobile
  /\ hoveredEvent # Null
  /\ hoveredEvent.day = day
  /\ hoveredEvent.eventIndex = idx

(***************************************************************************)
(* eventSubmissionForm.js: strings                                         *)
(*                                                                         *)
(* A string is the sequence of its characters.  NullStr stands for the     *)
(* JavaScript value null where a string is expected; no string equals it.  *)
(***************************************************************************)
NullStr == <<"null">>

Digits == {"0", "1", "2", "3", "4", "5", "6", "7", "8", "9"}
Letters ==
  {"a", "b", "c", "d", "e", "f", "g", "h", "i", "j", "k", "l", "m", "n", "o", "p", "q",
   "r", "s", "t", "u", "v", "w", "x", "y", "z",
   "A", "B", "C", "D", "E", "F", "G", "H", "I", "J", "K", "L", "M", "N", "O", "P", "Q",
   "R", "S", "T", "U", "V", "W", "X", "Y", "Z"}
Whitespace == {" "}

DigitValue(c) ==
  CASE c = "0" -> 0 [] c = "1" -> 1 [] c = "2" -> 2 [] c = "3" -> 3 [] c = "4" -> 4
    [] c = "5" -> 5 [] c = "6" -> 6 [] c = "7" -> 7 [] c = "8" -> 8 [] c = "9" -> 9

DigitChar(n) == <<"0", "1", "2", "3", "4", "5", "6", "7", "8", "9">>[n + 1]

\* String.prototype.trim
RECURSIVE TrimLeft(_)
TrimLeft(s) ==
  IF s # <<>> /\ Head(s) \in Whitespace THEN TrimLeft(Tail(s)) ELSE s

RECURSIVE TrimRight(_)
TrimRight(s) ==
  IF s # <<>> /\ s[Len(s)] \in Whitespace THEN TrimRight(SubSeq(s, 1, Len(s) - 1)) ELSE s

\* variant: nothing is trimmed
trimKeepsAll(s) == s

trim(s) == TrimRight(TrimLeft(s))

\* the four replace(...) calls of sanitizeInput, character by character
EscapeChar(c) ==
  CASE c = "<" -> <<"&", "l", "t", ";">>
    [] c = ">" -> <<"&", "g", "t", ";">>
    [] c = "\"" -> <<"&", "q", "u", "o", "t", ";">>
    [] c = "'" -> <<"&", "#", "0", "3", "9", ";">>
    [] OTHER -> <<c>>

RECURSIVE EscapeHtml(_)
EscapeHtml(s) ==
  IF s = <<>> THEN <<>>
  ELSE IF Len(s) = 1 THEN EscapeChar(s[1])
  ELSE LET half == Len(s) \div 2
       IN EscapeHtml(SubSeq(s, 1, half)) \o EscapeHtml(SubSeq(s, half + 1, Len(s)))

\* variant: the replace calls are left out
sanitizeInputTrimOnly(input) == trim(input)

sanitizeInput(input) == trim(EscapeHtml(input))

\* String.prototype.split(sep) for a one-character separator
RECURSIVE split(_, _)
split(s, sep) ==
  IF \A i \in 1 .. Len(s) : s[i] # sep THEN <<s>>
  ELSE LET i == CHOOSE k \in 1 .. Len(s) : s[k] = sep /\ \A j \in 1 .. k - 1 : s[j] # sep
       IN <<SubSeq(s, 1, i - 1)>> \o split(SubSeq(s, i + 1, Len(s)), sep)

\* Number(text): -1 stands for NaN; the empty text converts to 0
RECURSIVE DigitsValue(_)
DigitsValue(s) ==
  IF s = <<>> THEN 0 ELSE DigitsValue(SubSeq(s, 1, Len(s) - 1)) * 10 + DigitValue(s[Len(s)])

NaN == -1

Number(s) ==
  IF \A i \in 1 .. Len(s) : s[i] \in Digits THEN DigitsValue(s) ELSE NaN

\* n.toString().padStart(2, '0') for 0 <= n <= 99, and for NaN
PadStart2(n) ==
  IF n = NaN THEN <<"N", "a", "N">>
  ELSE IF n < 10 THEN <<"0", DigitChar(n)>>
  ELSE <<DigitChar(n \div 10), DigitChar(n % 10)>>

\* variant: 12 AM is left as hour 12
sanitizeTimeNoMidnight(time) ==
  LET parts == split(time, " ")
      timeSection == parts[1]
      modifier == IF Len(parts) >= 2 THEN parts[2] ELSE NullStr
      hm == split(timeSection, ":")
      hours0 == Number(hm[1])
      hours == IF modifier = <<"P", "M">> /\ hours0 # 12 /\ hours0 # NaN THEN hours0 + 12
               ELSE hours0
  IN IF Len(hm) < 2
     THEN NullStr
     ELSE PadStart2(hours) \o <<":">> \o PadStart2(Number(hm[2]))

sanitizeTime(time) ==
  LET parts == split(time, " ")
      timeSection == parts[1]
      modifier == IF Len(parts) >= 2 THEN parts[2] ELSE NullStr
      hm == split(timeSection, ":")
      hours0 == Number(hm[1])
      hours == IF modifier = <<"P", "M">> /\ hours0 # 12 /\ hours0 # NaN THEN hours0 + 12
               ELSE IF modifier = <<"A", "M">> /\ hours0 = 12 THEN 0
               ELSE hours0
  IN IF Len(hm) < 2
     THEN NullStr   \* minutes is undefined: minutes.toString() throws, caught
     ELSE PadStart2(hours) \o <<":">> \o PadStart2(Number(hm[2]))

\* /^\d{4}-\d{2}-\d{2}$/
sanitizeDate(date) ==
  IF /\ Len(date) = 10
     /\ \A i \in {1, 2, 3, 4, 6, 7, 9, 10} : date[i] \in Digits
     /\ date[5] = "-" /\ date[8] = "-"
  THEN date ELSE NullStr

\* kids is "true", "false" or "null" (unset)
sanitizeBoolean(input) == IF input \in {"true", "false"} THEN input ELSE "null"

\* /^[^\s@]+@[^\s@]+\.[^\s@]+$/
isValidEmail(email) ==
  /\ \A i \in 1 .. Len(email) : email[i] \notin Whitespace
  /\ \E i \in 2 .. Len(email) :
       /\ email[i] = "@"
       /\ \A k \in 1 .. Len(email) : k # i => email[k] # "@"
       /\ \E j \in i + 2 .. Len(email) - 1 : email[j] = "."

\* new URL(url) without a base, for texts of letters, digits and the
\* characters ":", "/", ".", "+", "-" whose host (if any) has no digit: the
\* text must start with a scheme (a letter, then letters, digits, "+", "-",
\* ".") followed by ":"; after a special scheme (http, https, ftp, ws, wss, in
\* lower case here) the slashes that follow must be followed by a host
SchemeChars == Letters \cup Digits \cup {"+", "-", "."}

SpecialSchemes ==
  {<<"h", "t", "t", "p">>, <<"h", "t", "t", "p", "s">>, <<"f", "t", "p">>,
   <<"w", "s">>, <<"w", "s", "s">>}

RECURSIVE SkipSlashes(_)
SkipSlashes(s) == IF s # <<>> /\ Head(s) = "/" THEN SkipSlashes(Tail(s)) ELSE s

isValidURL(url) ==
  \E i \in 2 .. Len(url) :
    /\ url[i] = ":"
    /\ url[1] \in Letters
    /\ \A k \in 2 .. i - 1 : url[k] \in SchemeChars
    /\ SubSeq(url, 1, i - 1) \in SpecialSchemes
         => SkipSlashes(SubSeq(url, i + 1, Len(url))) # <<>>

\* parseFloat(text), as far as validateForm reads it: "NaN", "negative" or "nonnegative"
parseFloatClass(text) ==
  LET s == TrimLeft(text)
      signed == s # <<>> /\ Head(s) \in {"+", "-"}
      body == IF signed THEN Tail(s) ELSE s
      \* the longest prefix of digits with at most one "."
      IsNum(n) == /\ \A i \in 1 .. n : body[i] \in Digits \cup {"."}
                  /\ Cardinality({i \in 1 .. n : body[i] = "."}) <= 1
                  /\ \E i \in 1 .. n : body[i] \in Digits
      hasNum == \E n \in 1 .. Len(body) : IsNum(n)
      numLen == CHOOSE n \in 1 .. Len(body) :
                  IsNum(n) /\ \A m \in n + 1 .. Len(body) : ~IsNum(m)
      nonzero == \E i \in 1 .. numLen : body[i] \in Digits \ {"0"}
  IN IF ~hasNum THEN "NaN"
     ELSE IF Head(s) = "-" /\ nonzero THEN "negative" ELSE "nonnegative"

(***************************************************************************)
(* eventSubmissionForm.js: validation and the draft                        *)
(***************************************************************************)
MaxName == 140
MaxEmail == 100
MaxOrganization == 200
MaxLocation == 200
MaxDescription == 500

Fields == {"name", "price", "description", "link", "kids", "location", "date", "time",
           "organization", "email"}

\* useState initial value of formData
InitialFormData ==
  [name |-> <<>>, price |-> <<>>, description |-> <<>>, link |-> <<>>, kids |-> "null",
   location |-> <<>>, date |-> <<>>, time |-> <<>>, organization |-> <<>>, email |-> <<>>]

\* variant: the reset leaves the picked date and time in place
SuccessFormDataKeepsDate ==
  [name |-> <<>>, price |-> <<>>, description |-> <<>>, link |-> <<>>, kids |-> "null",
   location |-> <<>>, date |-> <<"2", "0", "9", "9", "-", "0", "1", "-", "0", "1">>,
   time |-> <<>>, organization |-> <<>>, email |-> <<>>]

\* the value handleSubmit passes to setFormData after a successful POST
SuccessFormData ==
  [name |-> <<>>, price |-> <<>>, description |-> <<>>, link |-> <<>>, kids |-> "null",
   location |-> <<>>, date |-> <<>>, time |-> <<>>, organization |-> <<>>, email |-> <<>>]

NoErrors == [f \in Fields |-> ""]

\* !value for a string or null
Falsy(s) == s = <<>> \/ s = NullStr

validateForm(data) ==
  [name |->
     IF trim(data.name) = <<>> THEN "Name is required"
     ELSE IF Len(data.name) > MaxName THEN "Name must be less than 140 characters"
     ELSE "",
   email |->
     IF trim(data.email) = <<>> THEN "Email is required"
     ELSE IF Len(data.email) > MaxEmail THEN "Email must be less than 100 characters"
     ELSE IF ~isValidEmail(data.email) THEN "Please enter a valid email address"
     ELSE "",
   organization |->
     IF trim(data.organization) = <<>> THEN "Business name is required"
     ELSE IF Len(data.organization) > MaxOrganization
          THEN "Business name must be less than 200 characters"
     ELSE "",
   location |->
     IF trim(data.location) = <<>> THEN "Location name is required"
     ELSE IF Len(data.location) > MaxLocation
          THEN "Location name must be less than 200 characters"
     ELSE "",
   link |->
     IF trim(data.link) = <<>> THEN "Event link is required"
     ELSE IF ~isValidURL(data.link)
          THEN "Please enter a valid URL (include http:// or https://)"
     ELSE "",
   date |-> IF Falsy(data.date) THEN "Date is required" ELSE "",
   time |-> IF Falsy(data.time) THEN "Time for event is required" ELSE "",
   price |->
     IF data.price # <<>>
     THEN IF parseFloatClass(data.price) = "NaN" THEN "Price must be a valid number"
          ELSE IF parseFloatClass(data.price) = "negative" THEN "Price cannot be negative"
          ELSE ""
     ELSE "",
   description |->
     IF data.description # <<>> /\ Len(data.description) > MaxDescription
     THEN "Description must be less than 500 characters" ELSE "",
   kids |-> ""]

\* handleSubmit's sanitizedData; price is sent as parseFloat(price), kept
\* here as its class and text
SanitizedData(fd) ==
  [name |-> sanitizeInput(fd.name),
   price |-> <<parseFloatClass(fd.price)>> \o fd.price,
   description |-> sanitizeInput(fd.description),
   link |-> sanitizeInput(fd.link),
   kids |-> sanitizeBoolean(fd.kids),
   location |-> sanitizeInput(fd.location),
   date |-> sanitizeDate(fd.date),
   time |-> sanitizeTime(fd.time),
   organization |-> sanitizeInput(fd.organization),
   email |-> sanitizeInput(fd.email)]

\* the errors handleSubmit computes: sanitized data, with the original price
SubmitErrors(fd) == validateForm([SanitizedData(fd) EXCEPT !.price = fd.price])

\* variant: the submit handler never looks at the computed errors
IsValidAlways(newErrors) == TRUE

IsValid(newErrors) == \A f \in Fields : newErrors[f] = ""

ApiErrorText == "Failed to submit event. Please try again."

\* the message field of the JSON error body of a non-2xx response
ServerMessage == "An event with this name already exists"

\* the message of the Error thrown inside the try block for response resp:
\* errorData.message || `Server error: ${response.status}` after a non-2xx
\* response, the rejection of fetch, the SyntaxError of response.json()
ThrownMessage(resp) ==
  CASE resp = "non2xxMessage" -> ServerMessage
    [] resp = "non2xx" -> "Server error: 500"
    [] resp = "reject" -> "Failed to fetch"
    [] resp = "okNotJson" -> "Unexpected end of JSON input"
    [] OTHER -> ""

\* catch (error): the message of error goes to console.error; the text
\* passed to setApiError is a literal
CatchApiError(message) == ApiErrorText

(***************************************************************************)
(* eventSubmissionForm.js: operations                                      *)
(***************************************************************************)
MaxTimers == 2

TextA == <<"a">>
EmailOk == <<"a", "@", "b", ".", "c">>
UrlOk == <<"a", ":", "b">>
Date1 == <<"2", "0", "9", "9", "-", "0", "1", "-", "0", "1">>
Time1 == <<"2", ":", "3", "0", " ", "P", "M">>
Time2 == <<"1", "2", ":", "0", "0", " ", "A", "M">>

\* what the user types: input name and new value
ChangeInputs ==
  { [name |-> "name", value |-> v] : v \in {<<>>, TextA} }
  \cup { [name |-> "price", value |-> v] : v \in {<<>>, <<"-", "5">>} }
  \cup { [name |-> "email", value |-> EmailOk], [name |-> "organization", value |-> TextA],
         [name |-> "location", value |-> TextA], [name |-> "link", value |-> UrlOk],
         [name |-> "description", value |-> TextA] }

DateInputs == {Date1}
TimeInputs == {Time1, Time2}

PostResponses == {"ok", "okNotJson", "non2xx", "non2xxMessage", "reject"}

FormOp(name) == [op |-> name, edited |-> FALSE]

FormInit ==
  /\ formData = InitialFormData
  /\ errors = NoErrors
  /\ isSubmitted = FALSE
  /\ isSubmitting = FALSE
  /\ apiError = ""
  /\ inflight = <<>>
  /\ timers = 0
  /\ formOp = FormOp("mount")

handleChange(name, value) ==
  /\ ~isSubmitting   \* the inputs are disabled while submitting
  /\ formData' = [formData EXCEPT ![name] = value]
  /\ errors' = IF errors[name] # "" THEN [errors EXCEPT ![name] = ""] ELSE errors
  /\ apiError' = ""
  /\ formOp' = FormOp("handleChange")
  /\ UNCHANGED <<isSubmitted, isSubmitting, inflight, timers>>

handleKidsChange(value) ==
  /\ ~isSubmitting
  /\ formData' = [formData EXCEPT !.kids = IF formData.kids = value THEN "null" ELSE value]
  /\ errors' = IF errors.kids # "" THEN [errors EXCEPT !.kids = ""] ELSE errors
  /\ formOp' = FormOp("handleKidsChange")
  /\ UNCHANGED <<isSubmitted, isSubmitting, apiError, inflight, timers>>

\* DatePicker takes no disabled prop: a date can be picked at any time
handleDateChange(date) ==
  /\ formData' = [formData EXCEPT !.date = date]
  /\ errors' = IF errors.date # "" THEN [errors EXCEPT !.date = ""] ELSE errors
  /\ formOp' = FormOp("handleDateChange")
  /\ UNCHANGED <<isSubmitted, isSubmitting, apiError, inflight, timers>>

\* TimeSelector takes no disabled prop either
handleTimeChange(time) ==
  /\ formData' = [formData EXCEPT !.time = time]
  /\ errors' = IF errors.time # "" THEN [errors EXCEPT !.time = ""] ELSE errors
  /\ formOp' = FormOp("handleTimeChange")
  /\ UNCHANGED <<isSubmitted, isSubmitting, apiError, inflight, timers>>

\* variant: the submit button stays enabled while a request is in flight
handleSubmitNeverDisabled ==
  /\ timers < MaxTimers
  /\ Len(inflight) < 2
  /\ errors' = SubmitErrors(formData)
  /\ formOp' = FormOp("handleSubmit")
  /\ IF IsValid(SubmitErrors(formData))
     THEN /\ isSubmitting' = TRUE
          /\ apiError' = ""
          /\ inflight' = Append(inflight, [sent |-> SanitizedData(formData), draft |-> formData])
     ELSE UNCHANGED <<isSubmitting, apiError, inflight>>
  /\ UNCHANGED <<formData, isSubmitted, timers>>

\* handleSubmit up to the await of fetch
handleSubmit ==
  /\ ~isSubmitting   \* the submit button is disabled while submitting
  /\ timers < MaxTimers
  /\ errors' = SubmitErrors(formData)
  /\ formOp' = FormOp("handleSubmit")
  /\ IF IsValid(SubmitErrors(formData))
     THEN /\ isSubmitting' = TRUE
          /\ apiError' = ""
          /\ inflight' = Append(inflight, [sent |-> SanitizedData(formData), draft |-> formData])
     ELSE UNCHANGED <<isSubmitting, apiError, inflight>>
  /\ UNCHANGED <<formData, isSubmitted, timers>>

\* variant: the submitting flag is cleared at the end of the try block, not in
\* a finally block
postSettlesNoFinally(resp) ==
  /\ inflight # <<>>
  /\ inflight' = Tail(inflight)
  /\ formOp' = [op |-> resp, edited |-> formData # Head(inflight).draft]
  /\ IF resp = "ok"
     THEN /\ isSubmitted' = TRUE
          /\ formData' = SuccessFormData
          /\ timers' = timers + 1
          /\ isSubmitting' = FALSE
          /\ UNCHANGED apiError
     ELSE /\ apiError' = CatchApiError(ThrownMessage(resp))
          /\ UNCHANGED <<formData, isSubmitted, timers, isSubmitting>>
  /\ UNCHANGED errors

\* variant: every settled POST clears the draft
postSettlesWipesDraft(resp) ==
  /\ inflight # <<>>
  /\ inflight' = Tail(inflight)
  /\ formOp' = [op |-> resp, edited |-> formData # Head(inflight).draft]
  /\ isSubmitting' = FALSE
  /\ formData' = SuccessFormData
  /\ IF resp = "ok"
     THEN /\ isSubmitted' = TRUE
          /\ timers' = timers + 1
          /\ UNCHANGED apiError
     ELSE /\ apiError' = CatchApiError(ThrownMessage(resp))
          /\ UNCHANGED <<isSubmitted, timers>>
  /\ UNCHANGED errors

\* handleSubmit after the await: the POST settles with response resp
postSettles(resp) ==
  /\ inflight # <<>>
  /\ inflight' = Tail(inflight)
  /\ formOp' = [op |-> resp, edited |-> formData # Head(inflight).draft]
  /\ isSubmitting' = FALSE
  /\ IF resp = "ok"
     THEN /\ isSubmitted' = TRUE
          /\ formData' = SuccessFormData
          /\ timers' = timers + 1
          /\ UNCHANGED apiError
     ELSE /\ apiError' = CatchApiError(ThrownMessage(resp))
          /\ UNCHANGED <<formData, isSubmitted, timers>>
  /\ UNCHANGED errors

\* the setTimeout callback of a successful submission
hideSuccess ==
  /\ timers > 0
  /\ timers' = timers - 1
  /\ isSubmitted' = FALSE
  /\ formOp' = FormOp("hideSuccess")
  /\ UNCHANGED <<formData, errors, isSubmitting, apiError, inflight>>

(***************************************************************************)
(* timeSelector.js                                                         *)
(***************************************************************************)
AM == <<"A", "M">>
PM == <<"P", "M">>

\* `${hour}` for 1 <= hour <= 12
HourText(hour) ==
  IF hour < 10 THEN <<DigitChar(hour)>> ELSE <<DigitChar(hour \div 10), DigitChar(hour % 10)>>

\* generateTimeOptions: "1:00", "1:30", ..., "12:00", "12:30"
generateTimeOptions ==
  [i \in 1 .. 24 |->
     HourText((i + 1) \div 2) \o (IF i % 2 = 1 THEN <<":", "0", "0">> ELSE <<":", "3", "0">>)]

\* `${time} ${timeFormat}`
FormattedTime(time, format) == time \o <<" ">> \o format

TimeSelectorInit ==
  /\ showTimeOptions = FALSE
  /\ timeFormat = AM

\* click on the time input
toggleTimeOptions ==
  /\ showTimeOptions' = ~showTimeOptions
  /\ UNCHANGED timeFormat

\* the AM and PM buttons of the open option list
setTimeFormat(format) ==
  /\ showTimeOptions
  /\ timeFormat' = format
  /\ UNCHANGED showTimeOptions

\* click on option i of the open list; onTimeChange is the form's handleTimeChange
handleTimeSelection(i) ==
  /\ showTimeOptions
  /\ handleTimeChange(FormattedTime(generateTimeOptions[i], timeFormat))
  /\ showTimeOptions' = FALSE
  /\ UNCHANGED timeFormat

(***************************************************************************)
(* Navigation shell: the routes of App and the navigation tabs             *)
(***************************************************************************)
PathRoot == <<"/">>
PathAbout == <<"/", "a", "b", "o", "u", "t">>
PathCalendar == <<"/", "c", "a", "l", "e", "n", "d", "a", "r">>
PathSubmitEvent == <<"/", "s", "u", "b", "m", "i", "t", "-", "e", "v", "e", "n", "t">>

\* String.prototype.includes
Includes(s, sub) ==
  \E i \in 0 .. Len(s) - Len(sub) : SubSeq(s, i + 1, i + Len(sub)) = sub

getActiveTab(pathname) ==
  IF Includes(pathname, PathCalendar) THEN "calendar"
  ELSE IF Includes(pathname, PathSubmitEvent) THEN "submit-event"
  ELSE "about"

\* the path handleTabClick navigates to
TabPath(tab) ==
  CASE tab = "about" -> PathAbout
    [] tab = "calendar" -> PathCalendar
    [] tab = "submit-event" -> PathSubmitEvent
    [] OTHER -> PathRoot

\* a route path matches the whole pathname, with or without one trailing
\* slash (lower-case pathnames only)
Matches(routePath, pathname) ==
  pathname = routePath \/ pathname = routePath \o <<"/">>

\* the element <Routes> renders for pathname
RouteElement(pathname) ==
  IF Matches(PathAbout, pathname) THEN "AboutPage"
  ELSE IF Matches(PathCalendar, pathname) THEN "CalendarPage"
  ELSE IF Matches(PathSubmitEvent, pathname) THEN "EventSubmissionForm"
  ELSE "Navigate"

\* the location once the effect of <Navigate to="/about" replace /> has run
Landing(pathname) == IF RouteElement(pathname) = "Navigate" THEN PathAbout ELSE pathname

\* a history entry: its path, and whether it was created by loading a document
Entry(pathname, loaded) == [pathname |-> pathname, loaded |-> loaded]

NavOp(name) == [op |-> name]

\* the page is loaded at pathname in a fresh browser tab
NavigationInit(paths) ==
  /\ \E p \in paths :
       /\ historyEntries = <<Entry(Landing(p), TRUE)>>
       /\ activeTab = getActiveTab(p)
  /\ historyIndex = 1
  /\ navOp = NavOp("load")

\* navigate(path): the entries after the current one are dropped
Push(pathname, loaded) ==
  Append(SubSeq(historyEntries, 1, historyIndex), Entry(pathname, loaded))

\* click on a tab
handleTabClick(tab) ==
  /\ historyIndex < MaxHistory
  /\ activeTab' = tab
  /\ historyEntries' = Push(Landing(TabPath(tab)), FALSE)
  /\ historyIndex' = historyIndex + 1
  /\ navOp' = NavOp("handleTabClick")

\* back (delta = -1) and forward (delta = 1) buttons of the browser: within
\* one document the router follows the popstate event and NavigationTabs
\* keeps its state; across documents the page is loaded again
traverse(delta) ==
  /\ historyIndex + delta \in 1 .. Len(historyEntries)
  /\ historyIndex' = historyIndex + delta
  /\ activeTab' = IF historyEntries[IF delta < 0 THEN historyIndex ELSE historyIndex + delta].loaded
                  THEN getActiveTab(historyEntries[historyIndex + delta].pathname)
                  ELSE activeTab
  /\ navOp' = NavOp(IF delta < 0 THEN "back" ELSE "forward")
  /\ UNCHANGED historyEntries

\* a path typed into the address bar: a new document is loaded
loadPath(pathname) ==
  /\ historyIndex < MaxHistory
  /\ historyEntries' = Push(Landing(pathname), TRUE)
  /\ historyIndex' = historyIndex + 1
  /\ activeTab' = getActiveTab(pathname)
  /\ navOp' = NavOp("load")

(***************************************************************************)
(* Date picker (src/unnamed/part_004)                                      *)
(***************************************************************************)
\* date.setFullYear(year): MakeDay(year, month of date, day of date)
setFullYear(t, year) == MakeDay(year, getMonth(t), getDate(t))

\* the UTC day of the instant that is midnight of local day t
UTCDay(t, offset) == (t * 24 - offset) \div 24

\* the local day of the instant that is midnight of UTC day u
LocalDay(u, offset) == (u * 24 + offset) \div 24

\* year.padStart(4, '0') for 0 <= year <= 9999
PadStart4(n) ==
  <<DigitChar(n \div 1000), DigitChar((n \div 100) % 10), DigitChar((n \div 10) % 10),
    DigitChar(n % 10)>>

\* date.toISOString().split('T')[0] for the Date that is midnight of local day t
toISODate(t, offset) ==
  LET u == UTCDay(t, offset)
  IN PadStart4(getFullYear(u)) \o <<"-">> \o PadStart2(getMonth(u) + 1) \o <<"-">>
     \o PadStart2(getDate(u))

\* new Date("YYYY-MM-DD"): midnight UTC of that day, as a local day
ParseDate(text, offset) ==
  LocalDay(MakeDay(DigitsValue(SubSeq(text, 1, 4)), DigitsValue(SubSeq(text, 6, 7)) - 1,
                   DigitsValue(SubSeq(text, 9, 10))), offset)

NoDay == [day |-> 0, date |-> 0, isPast |-> FALSE]

generateDays(cur, now) ==
  LET year == getFullYear(cur)
      month == getMonth(cur)
      firstDay == NewDate(year, month, 1)
      lastDay == NewDate(year, month + 1, 0)
      firstDayOfWeek == getDay(firstDay)
      daysInMonth == getDate(lastDay)
  IN [i \in 1 .. firstDayOfWeek |-> NoDay]
     \o [day \in 1 .. daysInMonth |->
           [day |-> day, date |-> NewDate(year, month, day),
            isPast |-> NewDate(year, month, day) < now]]

isPastMonth(monthIndex, cur, now) ==
  LET monthDate == NewDate(getFullYear(cur), monthIndex, 1)
  IN /\ monthDate < now
     /\ getFullYear(monthDate) = getFullYear(now)
     /\ getMonth(monthDate) < getMonth(now)

DateOp(name, date, emits) == [op |-> name, date |-> date, emits |-> emits]

\* the picker mounted with an empty selectedDate prop
DatePickerInit(todays, offsets) ==
  /\ utcOffset \in offsets
  /\ today \in todays
  /\ currentMonth = today
  /\ selectedDate = <<>>
  /\ showDatePicker = FALSE
  /\ viewMode = "days"
  /\ dateOp = DateOp("mount", 0, FALSE)

\* click on the date input
toggleDatePicker ==
  /\ showDatePicker' = ~showDatePicker
  /\ dateOp' = DateOp("toggle", 0, FALSE)
  /\ UNCHANGED <<utcOffset, today, currentMonth, selectedDate, viewMode>>

navigateMonth(direction, lo, hi) ==
  /\ showDatePicker /\ viewMode = "days"
  /\ currentMonth' = setMonth(currentMonth, getMonth(currentMonth) + direction)
  /\ MonthIndex(currentMonth') \in lo .. hi
  /\ dateOp' = DateOp("navigateMonth", 0, FALSE)
  /\ UNCHANGED <<utcOffset, today, selectedDate, showDatePicker, viewMode>>

\* click on the month and year header
openMonths ==
  /\ showDatePicker /\ viewMode = "days"
  /\ viewMode' = "months"
  /\ dateOp' = DateOp("openMonths", 0, FALSE)
  /\ UNCHANGED <<utcOffset, today, currentMonth, selectedDate, showDatePicker>>

navigateYear(direction, lo, hi) ==
  /\ showDatePicker /\ viewMode = "months"
  /\ currentMonth' = setFullYear(currentMonth, getFullYear(currentMonth) + direction)
  /\ MonthIndex(currentMonth') \in lo .. hi
  /\ dateOp' = DateOp("navigateYear", 0, FALSE)
  /\ UNCHANGED <<utcOffset, today, selectedDate, showDatePicker, viewMode>>

\* click on a month button; the buttons of past months are disabled
selectMonth(monthIndex, lo, hi) ==
  /\ showDatePicker /\ viewMode = "months"
  /\ ~isPastMonth(monthIndex, currentMonth, today)
  /\ currentMonth' = setMonth(currentMonth, monthIndex)
  /\ MonthIndex(currentMonth') \in lo .. hi
  /\ viewMode' = "days"
  /\ dateOp' = DateOp("selectMonth", 0, FALSE)
  /\ UNCHANGED <<utcOffset, today, selectedDate, showDatePicker>>

\* selectDate, with onDateChange the form's handleDateChange; the effect on
\* the selectedDate prop runs when the draft's date has changed
selectDate(date) ==
  LET formattedDate == toISODate(date, utcOffset)
  IN /\ handleDateChange(formattedDate)
     /\ selectedDate' = IF formattedDate # formData.date
                        THEN <<ParseDate(formattedDate, utcOffset)>>
                        ELSE <<date>>
     /\ showDatePicker' = FALSE

\* the cells of the day grid on display
DayCells == IF showDatePicker /\ viewMode = "days"
            THEN LET days == generateDays(currentMonth, today)
                 IN {days[i] : i \in 1 .. Len(days)}
            ELSE {}

\* click on the cell of the day grid that renders dayObj
dayCellClick(dayObj) ==
  /\ showDatePicker /\ viewMode = "days"
  /\ IF dayObj.day # 0 /\ ~dayObj.isPast
     THEN /\ selectDate(dayObj.date)
          /\ dateOp' = DateOp("dayCellClick", dayObj.date, TRUE)
     ELSE /\ dateOp' = DateOp("dayCellClick", dayObj.date, FALSE)
          /\ UNCHANGED <<formVars, selectedDate, showDatePicker>>
  /\ UNCHANGED <<utcOffset, today, currentMonth, viewMode>>

\* the three widgets as the other specifications start them
WidgetInit ==
  /\ TimeSelectorInit
  /\ DatePickerInit({MakeDay(2024, 0, 1)}, {0})
  /\ NavigationInit({PathAbout})

(***************************************************************************)
(* Specifications                                                          *)
(***************************************************************************)
vars == <<currentDate, allEvents, filteredEvents, hoveredEvent, modalEvent,
          isMobile, fetchState, filterPending, crashed, lastOp,
          formData, errors, isSubmitted, isSubmitting, apiError, inflight, timers, formOp,
          showTimeOptions, timeFormat,
          utcOffset, today, currentMonth, selectedDate, showDatePicker, viewMode, dateOp,
          historyEntries, historyIndex, activeTab, navOp>>

DaysOfMonths(lo, hi) ==
  { t \in MakeDay(lo \div 12, lo % 12, 1) .. MakeDay(hi \div 12, (hi % 12) + 1, 0) : TRUE }

\* the calendar page, mounted on a first or a late day of a month of the window
MountDays == {1, 29, 31}

Init ==
  /\ CalendarInit({t \in DaysOfMonths(FirstMonth, LastMonth) : getDate(t) \in MountDays})
  /\ FormInit
  /\ WidgetInit

Next ==
  \/ goToPreviousMonth(FirstMonth, LastMonth) /\ UNCHANGED <<formVars, widgetVars>>
  \/ goToNextMonth(FirstMonth, LastMonth) /\ UNCHANGED <<formVars, widgetVars>>
  \/ (\E resp \in FeedResponses : fetchEvents(resp)) /\ UNCHANGED <<formVars, widgetVars>>
  \/ filterEffect /\ UNCHANGED <<formVars, widgetVars>>
  \/ (\E day \in Days, idx \in 1 .. MaxFeedLen : onMouseEnter(day, idx)) /\ UNCHANGED <<formVars, widgetVars>>
  \/ (\E day \in Days, idx \in 1 .. MaxFeedLen : onMouseLeave(day, idx)) /\ UNCHANGED <<formVars, widgetVars>>
  \/ (\E day \in Days, idx \in 1 .. MaxFeedLen : onClick(day, idx)) /\ UNCHANGED <<formVars, widgetVars>>
  \/ closeButton /\ UNCHANGED <<formVars, widgetVars>>
  \/ (\E onOverlay \in BOOLEAN : handleOverlayClick(onOverlay)) /\ UNCHANGED <<formVars, widgetVars>>
  \/ (\E key \in {"Escape", "Enter"} : handleKey(key)) /\ UNCHANGED <<formVars, widgetVars>>
  \/ (\E w \in Widths : handleResize(w)) /\ UNCHANGED <<formVars, widgetVars>>

Spec == Init /\ [][Next]_vars

\* month navigation alone, over whole years
NavFirst == NavFirstYear * 12
NavLast == NavLastYear * 12 + 11

InitNav == CalendarInit(DaysOfMonths(NavFirst, NavLast)) /\ isMobile = FALSE /\ FormInit /\ WidgetInit

NextNav ==
  \/ goToPreviousMonth(NavFirst, NavLast) /\ UNCHANGED <<formVars, widgetVars>>
  \/ goToNextMonth(NavFirst, NavLast) /\ UNCHANGED <<formVars, widgetVars>>
  \/ filterEffect /\ UNCHANGED <<formVars, widgetVars>>

SpecNav == InitNav /\ [][NextNav]_vars

\* feeds of dated events only, of up to MaxOrderLen events on the first days
\* of March 2024
OrderDates ==
  {DateStr(2024, 3, 1), DateStrUnpadded(2024, 3, 1), DateStr(2024, 2, 30), DateStr(2024, 3, 2)}

OrderResponses ==
  UNION { { [kind |-> "events", found |-> [i \in 1 .. n |-> [id |-> i, date |-> f[i]]]] :
              f \in [1 .. n -> OrderDates] } : n \in 0 .. MaxOrderLen }

InitOrder ==
  /\ CalendarInit({MakeDay(2024, 2, 1)}) /\ isMobile = FALSE
  /\ FormInit
  /\ WidgetInit

NextOrder ==
  \/ (\E resp \in OrderResponses : fetchEvents(resp)) /\ UNCHANGED <<formVars, widgetVars>>
  \/ filterEffect /\ UNCHANGED <<formVars, widgetVars>>
  \/ goToPreviousMonth(FirstMonth, LastMonth) /\ UNCHANGED <<formVars, widgetVars>>
  \/ goToNextMonth(FirstMonth, LastMonth) /\ UNCHANGED <<formVars, widgetVars>>

SpecOrder == InitOrder /\ [][NextOrder]_vars

\* the submission form
InitForm == CalendarInit({MakeDay(2024, 0, 1)}) /\ isMobile = FALSE /\ FormInit /\ WidgetInit

NextForm ==
  \/ (\E c \in ChangeInputs : handleChange(c.name, c.value)) /\ UNCHANGED <<calVars, widgetVars>>
  \/ (\E v \in {"true", "false"} : handleKidsChange(v)) /\ UNCHANGED <<calVars, widgetVars>>
  \/ (\E d \in DateInputs : handleDateChange(d)) /\ UNCHANGED <<calVars, widgetVars>>
  \/ (\E t \in TimeInputs : handleTimeChange(t)) /\ UNCHANGED <<calVars, widgetVars>>
  \/ handleSubmit /\ UNCHANGED <<calVars, widgetVars>>
  \/ (\E resp \in PostResponses : postSettles(resp)) /\ UNCHANGED <<calVars, widgetVars>>
  \/ hideSuccess /\ UNCHANGED <<calVars, widgetVars>>

SpecForm == InitForm /\ [][NextForm]_vars

\* submit validation alone: the form holds a typed draft and submit is clicked
\* c typed n times
Rep(c, n) == [i \in 1 .. n |-> c]

EmailTyped == <<"a", "@", "b", ".", "c", "o", "m">>
LinkTyped == <<"h", "t", "t", "p", "s", ":", "/", "/", "e", ".", "c", "o", "m">>

NameInputs ==
  {<<>>, <<" ">>, <<"X">>, <<" ", "<", "a", ">", " ">>, <<"\"", "'">>,
   Rep("a", MaxName), Rep("a", MaxName + 1), Rep("<", 35), Rep("<", 36)}
OrganizationInputs == {<<>>, <<"X">>, <<" ", " ">>, Rep(">", 50), Rep(">", 51)}
LocationInputs == {<<>>, <<"Y">>, Rep("'", 33), Rep("'", 34)}
EmailInputs == {<<>>, EmailTyped, <<" ">> \o EmailTyped \o <<" ">>}
LinkInputs == {<<>>, LinkTyped, <<"e", ".", "c", "o", "m">>}
DescriptionInputs == {<<>>, <<"<", "b", ">">>}

DraftInputs ==
  { [name |-> n, price |-> <<>>, description |-> ds, link |-> l, kids |-> "null",
     location |-> lo, date |-> d, time |-> t, organization |-> o, email |-> e] :
      n \in NameInputs, ds \in DescriptionInputs, l \in LinkInputs, lo \in LocationInputs,
      d \in {<<>>, Date1}, t \in {<<>>, Time1}, o \in OrganizationInputs, e \in EmailInputs }

InitSubmit ==
  /\ CalendarInit({MakeDay(2024, 0, 1)}) /\ isMobile = FALSE
  /\ formData \in DraftInputs
  /\ errors = NoErrors
  /\ isSubmitted = FALSE
  /\ isSubmitting = FALSE
  /\ apiError = ""
  /\ inflight = <<>>
  /\ timers = 0
  /\ formOp = FormOp("handleChange")
  /\ WidgetInit

NextSubmit ==
  \/ handleSubmit /\ UNCHANGED <<calVars, widgetVars>>
  \/ (\E resp \in PostResponses : postSettles(resp)) /\ UNCHANGED <<calVars, widgetVars>>
  \/ hideSuccess /\ UNCHANGED <<calVars, widgetVars>>

SpecSubmit == InitSubmit /\ [][NextSubmit]_vars

\* the time selector inside the form: a draft that lacks only its time, or
\* the empty draft
DraftWithoutTime ==
  [name |-> <<"X">>, price |-> <<>>, description |-> <<>>, link |-> LinkTyped, kids |-> "null",
   location |-> <<"Y">>, date |-> Date1, time |-> <<>>, organization |-> <<"X">>,
   email |-> EmailTyped]

InitTime ==
  /\ CalendarInit({MakeDay(2024, 0, 1)}) /\ isMobile = FALSE
  /\ formData \in {InitialFormData, DraftWithoutTime}
  /\ errors = NoErrors
  /\ isSubmitted = FALSE
  /\ isSubmitting = FALSE
  /\ apiError = ""
  /\ inflight = <<>>
  /\ timers = 0
  /\ formOp = FormOp("handleChange")
  /\ WidgetInit

NextTime ==
  \/ toggleTimeOptions /\ UNCHANGED <<calVars, formVars, dateVars, navVars>>
  \/ (\E f \in {AM, PM} : setTimeFormat(f)) /\ UNCHANGED <<calVars, formVars, dateVars, navVars>>
  \/ (\E i \in 1 .. 24 : handleTimeSelection(i)) /\ UNCHANGED <<calVars, dateVars, navVars>>
  \/ handleSubmit /\ UNCHANGED <<calVars, widgetVars>>

SpecTime == InitTime /\ [][NextTime]_vars

\* the date picker inside the form
PickerTodays == {MakeDay(2024, 0, 1)}
\* the cells that are clicked: an empty cell, and these days of the month
PickerClickDays == {0, 1, 2, 31}
PickerOffsets == {-5, 0, 2}

InitDate ==
  /\ CalendarInit({MakeDay(2024, 0, 1)}) /\ isMobile = FALSE
  /\ FormInit
  /\ TimeSelectorInit
  /\ DatePickerInit(PickerTodays, PickerOffsets)
  /\ NavigationInit({PathSubmitEvent})

NextDate ==
  \/ toggleDatePicker /\ UNCHANGED <<calVars, formVars, timeVars, navVars>>
  \/ (\E d \in {-1, 1} : navigateMonth(d, PickerFirstMonth, PickerLastMonth))
       /\ UNCHANGED <<calVars, formVars, timeVars, navVars>>
  \/ openMonths /\ UNCHANGED <<calVars, formVars, timeVars, navVars>>
  \/ (\E d \in {-1, 1} : navigateYear(d, PickerFirstMonth, PickerLastMonth))
       /\ UNCHANGED <<calVars, formVars, timeVars, navVars>>
  \/ (\E m \in 0 .. 11 : selectMonth(m, PickerFirstMonth, PickerLastMonth))
       /\ UNCHANGED <<calVars, formVars, timeVars, navVars>>
  \/ (\E dayObj \in {c \in DayCells : c.day \in PickerClickDays} : dayCellClick(dayObj))
       /\ UNCHANGED <<calVars, timeVars, navVars>>

SpecDate == InitDate /\ [][NextDate]_vars

\* the navigation shell
LoadPaths ==
  {PathRoot, PathAbout, PathCalendar, PathSubmitEvent, PathCalendar \o <<"/">>,
   <<"/", "x">> \o PathCalendar, <<"/", "n", "o", "p", "e">>}

Tabs == {"about", "calendar", "submit-event"}

InitShell ==
  /\ CalendarInit({MakeDay(2024, 0, 1)}) /\ isMobile = FALSE
  /\ FormInit
  /\ TimeSelectorInit
  /\ DatePickerInit({MakeDay(2024, 0, 1)}, {0})
  /\ NavigationInit(LoadPaths)

NextShell ==
  \/ (\E tab \in Tabs : handleTabClick(tab)) /\ UNCHANGED <<calVars, formVars, timeVars, dateVars>>
  \/ (\E delta \in {-1, 1} : traverse(delta)) /\ UNCHANGED <<calVars, formVars, timeVars, dateVars>>
  \/ (\E p \in LoadPaths : loadPath(p)) /\ UNCHANGED <<calVars, formVars, timeVars, dateVars>>

SpecShell == InitShell /\ [][NextShell]_vars

(***************************************************************************)
(* Properties                                                              *)
(***************************************************************************)
\* the events of the event mapping
AllEventsSeq == Flatten(allEvents)

\* number of occurrences of event e in sequence s
Occurrences(s, e) == Cardinality({i \in 1 .. Len(s) : s[i] = e})

CursorYear == getFullYear(currentDate)
CursorMonth == getMonth(currentDate)

\* the date text of e names an existing calendar day
IsCalendarDay(e) ==
  /\ e.date.kind = "string"
  /\ e.date.m \in 1 .. 12
  /\ e.date.d \in 1 .. DaysInMonthRef(e.date.y, e.date.m - 1)

\* the date text of e names the year and month of the cursor
NamesCursorMonth(e) ==
  e.date.kind = "string" /\ e.date.y = CursorYear /\ e.date.m - 1 = CursorMonth

C2_OutsideInNoBucket ==
  Idle =>
    \A i \in 1 .. Len(AllEventsSeq) :
      LET e == AllEventsSeq[i]
      IN (e.date.kind = "string" /\ ~NamesCursorMonth(e)) =>
           \A day \in Days : Occurrences(filteredEvents[day], e) = 0

\* C3: goToPreviousMonth moves the displayed year and month back by exactly
\* one month, whatever the day of the month of the cursor
C3_PreviousMonth ==
  lastOp.op = "goToPreviousMonth" => MonthIndex(currentDate) = MonthIndex(lastOp.a) - 1

\* C4: goToNextMonth lands on day 1 of exactly the following month, December
\* of year Y going to January of year Y + 1
C4_NextMonth ==
  lastOp.op = "goToNextMonth" =>
    LET y0 == getFullYear(lastOp.a)
        m0 == getMonth(lastOp.a)
    IN /\ getDate(currentDate) = 1
       /\ CursorYear = (IF m0 = 11 THEN y0 + 1 ELSE y0)
       /\ CursorMonth = (IF m0 = 11 THEN 0 ELSE m0 + 1)
       /\ currentDate - lastOp.a = DaysInMonthRef(y0, m0) - getDate(lastOp.a) + 1

C4_Witness ==
  /\ lastOp.op = "goToNextMonth"
  /\ getMonth(lastOp.a) = 0 /\ getDate(lastOp.a) = 31
  /\ CursorMonth = 1 /\ getDate(currentDate) = 1

C4_WitnessDecember ==
  /\ lastOp.op = "goToNextMonth"
  /\ getMonth(lastOp.a) = 11 /\ getFullYear(lastOp.a) = 2023
  /\ CursorMonth = 0 /\ CursorYear = 2024

\* C5: generateCalendarDays is firstWeekday placeholders followed by the day
\* numbers 1 .. daysInMonth, and nothing else
C5_Grid ==
  LET days == generateCalendarDays(currentDate)
      firstWeekday == WeekdayRef(CursorYear, CursorMonth + 1, 1)
      daysInMonth == DaysInMonthRef(CursorYear, CursorMonth)
  IN /\ Len(days) = firstWeekday + daysInMonth
     /\ \A i \in 1 .. firstWeekday : days[i] = EmptyCell
     /\ \A i \in 1 .. daysInMonth : days[firstWeekday + i] = i

\* February 2024: 4 placeholders and 29 days, not a whole number of weeks
C5_Witness ==
  /\ CursorYear = 2024 /\ CursorMonth = 1
  /\ Len(generateCalendarDays(currentDate)) = 33
  /\ generateCalendarDays(currentDate)[4] = EmptyCell
  /\ generateCalendarDays(currentDate)[5] = 1

FeedUnavailable ==
  fetchState \in {"reject", "non2xx", "badjson", "badbody", "nofound", "notarray"}

\* C6: after a failed or malformed feed response nothing is thrown (the
\* calendar stays mounted, with its navigation buttons), and the event mapping
\* and the bucket mapping are empty in every month navigated to
C6_FeedUnavailable ==
  FeedUnavailable =>
    /\ ~crashed
    /\ allEvents = <<>>
    /\ filteredEvents = NoBuckets

\* a month reached by navigation after the feed failed
C6_Witness ==
  /\ fetchState = "badbody"
  /\ lastOp.op = "goToNextMonth"
  /\ MonthIndex(currentDate) = MonthIndex(lastOp.a) + 1
  /\ Idle
  /\ filteredEvents = NoBuckets

\* C7: a 2xx response whose found_events is an array never leads to an
\* uncaught error
C7_NothingFatal == fetchState = "events" => ~crashed

\* C8: after a switch from compact to wide mode neither the modal nor a
\* detail overlay is displayed
C8_ModeSwitchDiscards ==
  [][(isMobile /\ ~isMobile') =>
       (~ModalShown' /\ \A day \in Days, idx \in 1 .. MaxFeedLen : ~PopupShown(day, idx)')]_vars

\* C9: a tap on an event in compact mode opens the modal on that event; the
\* close control, a tap on the overlay and Escape close it; a tap inside the
\* modal content leaves it open; a click in wide mode leaves the modal as it was
C9_Modal ==
  [][/\ (lastOp'.op = "onClick" /\ isMobile)
          => modalEvent' = filteredEvents[lastOp'.a][lastOp'.b]
     /\ (lastOp'.op = "onClick" /\ ~isMobile) => modalEvent' = modalEvent
     /\ (lastOp'.op \in {"closeButton", "overlayClick", "Escape"}) => modalEvent' = Null
     /\ (lastOp'.op = "contentClick") => (modalEvent # Null /\ modalEvent' = modalEvent)]_vars

C9_Witness ==
  /\ lastOp.op = "contentClick"
  /\ isMobile
  /\ ModalShown

C9_WitnessEscape == lastOp = Op("Escape", 1, 0) /\ ~ModalShown

\* C10: when the POST completes with a 2xx status and a JSON body, the draft
\* equals the initial empty draft and the confirmation is shown
C10_SubmitSuccess ==
  formOp.op = "ok" => (formData = InitialFormData /\ isSubmitted)

\* the time was changed while the request was in flight
C10_Witness ==
  /\ formOp.op = "ok"
  /\ formOp.edited
  /\ formData = InitialFormData
  /\ isSubmitted

\* the POST rejected, or completed with a status outside 200..299
SubmitFailures == {"non2xx", "non2xxMessage", "reject"}

C12_ServerMessageShown ==
  /\ formOp.op = "non2xxMessage" => apiError = ServerMessage
  /\ (formOp.op \in SubmitFailures /\ apiError = ApiErrorText) => formOp.op # "non2xxMessage"

\* C13: at most one POST is in flight at any time, and the submit control is
\* disabled (isSubmitting) exactly while one is
C13_OnePostInFlight ==
  /\ Len(inflight) <= 1
  /\ isSubmitting <=> inflight # <<>>

\* the date was changed while the second request of this form was in flight
C13_Witness ==
  /\ formOp.op = "handleDateChange"
  /\ isSubmitting
  /\ Len(inflight) = 1
  /\ apiError = ""
  /\ timers = 1

\* every character of s is white space
IsBlank(s) == \A i \in 1 .. Len(s) : s[i] \in Whitespace

RequiredText ==
  [name |-> "Name is required", email |-> "Email is required",
   organization |-> "Business name is required", location |-> "Location name is required",
   link |-> "Event link is required", date |-> "Date is required",
   time |-> "Time for event is required"]

\* the draft of the validation example: complete but for the name
NamelessDraft ==
  [name |-> <<>>, price |-> <<>>, description |-> <<>>, link |-> LinkTyped, kids |-> "null",
   location |-> <<"Y">>, date |-> Date1, time |-> Time1, organization |-> <<"X">>,
   email |-> EmailTyped]

\* C14: after a submit click, a required text field (name, email,
\* organization, location, link) has its "required" error exactly when it is
\* blank after trimming, date and time have theirs exactly when they are
\* empty; a draft whose only defect is an empty name gets the name-required
\* error and no other error
C14_RequiredFields ==
  formOp.op = "handleSubmit" =>
    /\ \A f \in {"name", "email", "organization", "location", "link"} :
         errors[f] = RequiredText[f] <=> IsBlank(formData[f])
    /\ \A f \in {"date", "time"} : errors[f] = RequiredText[f] <=> formData[f] = <<>>
    /\ formData = NamelessDraft => errors = [NoErrors EXCEPT !.name = "Name is required"]

C14_Witness ==
  /\ formOp.op = "handleSubmit"
  /\ formData = NamelessDraft
  /\ errors.name = "Name is required"
  /\ errors.email = "" /\ errors.link = "" /\ errors.date = "" /\ errors.time = ""
  /\ inflight = <<>>

\* a name of spaces only, next to a missing date
C14_WitnessBlank ==
  /\ formOp.op = "handleSubmit"
  /\ formData.name = <<" ">> /\ formData.date = <<>> /\ formData.time = Time1
  /\ errors.name = "Name is required"
  /\ errors.date = "Date is required"
  /\ errors.time = ""

\* C15: after a submit click, a non-blank name of at most 140 typed
\* characters has no error, and so have a non-blank organization and a
\* non-blank location of at most 200 typed characters, whatever the characters
C15_LengthOfEntered ==
  formOp.op = "handleSubmit" =>
    /\ (~IsBlank(formData.name) /\ Len(formData.name) <= MaxName) => errors.name = ""
    /\ (~IsBlank(formData.organization) /\ Len(formData.organization) <= MaxOrganization)
         => errors.organization = ""
    /\ (~IsBlank(formData.location) /\ Len(formData.location) <= MaxLocation)
         => errors.location = ""

TextFields == {"name", "description", "link", "location", "organization", "email"}

RawCharacters == {"<", ">", "\"", "'"}

\* s has none of the raw characters and neither starts nor ends with white space
IsClean(s) ==
  /\ \A i \in 1 .. Len(s) : s[i] \notin RawCharacters
  /\ s # <<>> => (s[1] \notin Whitespace /\ s[Len(s)] \notin Whitespace)

\* C19: every text field of every record that is POSTed has none of the
\* characters <, >, double quote, single quote and no leading or trailing
\* white space; sanitizeInput returns a sanitized text unchanged
C19_Sanitized ==
  /\ \A i \in 1 .. Len(inflight) : \A f \in TextFields : IsClean(inflight[i].sent[f])
  /\ \A f \in TextFields :
       sanitizeInput(sanitizeInput(formData[f])) = sanitizeInput(formData[f])

\* a POSTed record whose name was typed with markup and surrounding spaces
C19_Witness ==
  /\ inflight # <<>>
  /\ inflight[1].draft.name = <<" ", "<", "a", ">", " ">>
  /\ inflight[1].sent.name = <<"&", "l", "t", ";", "a", "&", "g", "t", ";">>
  /\ inflight[1].draft.email = <<" ">> \o EmailTyped \o <<" ">>
  /\ inflight[1].sent.email = EmailTyped
  /\ inflight[1].sent.description = <<"&", "l", "t", ";", "b", "&", "g", "t", ";">>

\* C18: once the bucket mapping has been rebuilt, the events of every day
\* bucket are in the order of their positions in found_events
C18_BucketOrder ==
  Idle =>
    \A day \in Days :
      \A i, j \in 1 .. Len(filteredEvents[day]) :
        i < j => filteredEvents[day][i].id < filteredEvents[day][j].id

\* the two digits of n, 0 <= n <= 99
TwoDigits(n) == <<DigitChar(n \div 10), DigitChar(n % 10)>>

\* the text "H:MM AM" or "H:MM PM" of hour h (1 .. 12) and minute mm
SelectorText(h, mm, pm) ==
  (IF h < 10 THEN <<DigitChar(h)>> ELSE TwoDigits(h)) \o <<":">> \o TwoDigits(mm) \o <<" ">>
  \o (IF pm THEN <<"P", "M">> ELSE <<"A", "M">>)

\* the 24-hour text of the same time: 12 AM is hour 0, 12 PM hour 12, h PM hour h + 12
Time24(h, mm, pm) == TwoDigits((h % 12) + (IF pm THEN 12 ELSE 0)) \o <<":">> \o TwoDigits(mm)

\* sanitizeTime maps the selector text t to its 24-hour text
Normalized(t, result) ==
  \E h \in 1 .. 12, mm \in {0, 30}, pm \in BOOLEAN :
    t = SelectorText(h, mm, pm) /\ result = Time24(h, mm, pm)

\* every text the time selector can emit in its current or its other format
SelectorTexts ==
  {FormattedTime(generateTimeOptions[i], f) : i \in 1 .. 24, f \in {AM, PM}}

\* C20: sanitizeTime maps every text the time selector emits to the
\* zero-padded 24-hour HH:MM of the same time, the 48 texts to 48 distinct
\* times of 00:00 .. 23:30; an empty time gives null and, at submit, the
\* time-required error
C20_TimeNormalization ==
  /\ formData.time # <<>> => Normalized(formData.time, sanitizeTime(formData.time))
  /\ \A i \in 1 .. Len(inflight) : Normalized(inflight[i].draft.time, inflight[i].sent.time)
  /\ \A t \in SelectorTexts : Normalized(t, sanitizeTime(t))
  /\ Cardinality({sanitizeTime(t) : t \in SelectorTexts}) = 48
  /\ sanitizeTime(<<>>) = NullStr
  /\ formOp.op = "handleSubmit" =>
       (errors.time = "Time for event is required" <=> formData.time = <<>>)

\* 12:30 AM was picked and sent as 00:30; 12:00 PM is picked now
C20_Witness ==
  /\ inflight # <<>>
  /\ inflight[1].draft.time = <<"1", "2", ":", "3", "0", " ", "A", "M">>
  /\ inflight[1].sent.time = <<"0", "0", ":", "3", "0">>
  /\ formData.time = <<"1", "2", ":", "0", "0", " ", "P", "M">>
  /\ sanitizeTime(formData.time) = <<"1", "2", ":", "0", "0">>

\* submit was clicked on a draft without a time
C20_WitnessEmpty ==
  /\ formOp.op = "handleSubmit"
  /\ formData = DraftWithoutTime
  /\ errors = [NoErrors EXCEPT !.time = "Time for event is required"]

\* text has the form YYYY-MM-DD
IsISODate(text) ==
  /\ Len(text) = 10
  /\ \A i \in {1, 2, 3, 4, 6, 7, 9, 10} : text[i] \in Digits
  /\ text[5] = "-" /\ text[8] = "-"

\* the calendar day that the text YYYY-MM-DD names, as a day number
ISODay(text) ==
  MakeDay(DigitsValue(SubSeq(text, 1, 4)), DigitsValue(SubSeq(text, 6, 7)) - 1,
          DigitsValue(SubSeq(text, 9, 10)))

\* C16: the text the date picker has passed to onDateChange is the
\* YYYY-MM-DD form of a calendar day that is not before the current local
\* day, at every UTC offset; a click on a day before today emits nothing
C16_EmitsNonPast ==
  /\ (dateOp.op = "dayCellClick" /\ dateOp.emits) =>
       (IsISODate(formData.date) /\ ISODay(formData.date) >= today)
  /\ (dateOp.op = "dayCellClick" /\ dateOp.date # 0 /\ dateOp.date < today) => ~dateOp.emits

\* the page component the router renders at the current history entry
RenderedPage == RouteElement(historyEntries[historyIndex].pathname)

TabOfPage(page) ==
  CASE page = "AboutPage" -> "about"
    [] page = "CalendarPage" -> "calendar"
    [] page = "EventSubmissionForm" -> "submit-event"
    [] OTHER -> "none"

\* C17: after any tab clicks, loads of arbitrary paths and back / forward
\* steps, the highlighted tab is the tab of the page component rendered
C17_HighlightedTab == activeTab = TabOfPage(RenderedPage)

\* ---------------------------------------------------------------------------
\* C21: validation gate. A submit whose validation reports a non-empty error
\* for some field issues no POST, leaves the draft unchanged, leaves the
\* submitting flag false and replaces the error record by the newly computed
\* errors; a POST is issued only when every field's error is the empty string.
SomeError(errs) == \E f \in Fields : errs[f] # ""

C21_ValidationGate ==
  [][formOp'.op = "handleSubmit" =>
       /\ errors' = SubmitErrors(formData)
       /\ SomeError(errors') =>
            /\ inflight' = inflight
            /\ formData' = formData
            /\ ~isSubmitting /\ ~isSubmitting'
       /\ inflight' # inflight => ~SomeError(errors')]_vars

\* a submit was refused: errors are shown, nothing is in flight
C21_Witness ==
  /\ formOp.op = "handleSubmit"
  /\ SomeError(errors)
  /\ inflight = <<>>
  /\ ~isSubmitting

\* ---------------------------------------------------------------------------
\* C22: confirmation auto-dismiss. While the delay started by a successful
\* submission has not yet elapsed (its timer is still pending), the
\* confirmation of that submission is visible; in particular the timer of an
\* earlier success does not dismiss the confirmation of a later one.
C22_ConfirmationStays == timers > 0 => isSubmitted

(***************************************************************************)
(* Wide-mode hover over a feed with events on the same day of two months   *)
(***************************************************************************)
HoverDates == {DateStr(2024, 2, 1), DateStr(2024, 3, 1)}

HoverResponses ==
  { [kind |-> "events", found |-> [i \in 1 .. n |-> [id |-> i, date |-> f[i]]]] :
      f \in [1 .. MaxFeedLen -> HoverDates], n \in 1 .. MaxFeedLen }

InitHover ==
  /\ CalendarInit({t \in DaysOfMonths(FirstMonth, LastMonth) : getDate(t) \in MountDays})
  /\ isMobile = FALSE
  /\ FormInit
  /\ WidgetInit

NextHover ==
  \/ goToPreviousMonth(FirstMonth, LastMonth) /\ UNCHANGED <<formVars, widgetVars>>
  \/ goToNextMonth(FirstMonth, LastMonth) /\ UNCHANGED <<formVars, widgetVars>>
  \/ (\E resp \in HoverResponses : fetchEvents(resp)) /\ UNCHANGED <<formVars, widgetVars>>
  \/ filterEffect /\ UNCHANGED <<formVars, widgetVars>>
  \/ (\E day \in Days, idx \in 1 .. MaxFeedLen : onMouseEnter(day, idx)) /\ UNCHANGED <<formVars, widgetVars>>
  \/ (\E day \in Days, idx \in 1 .. MaxFeedLen : onMouseLeave(day, idx)) /\ UNCHANGED <<formVars, widgetVars>>

SpecHover == InitHover /\ [][NextHover]_vars

\* ---------------------------------------------------------------------------
\* C23: wide-mode hover. Once the effects of the last render have run, at
\* most one detail overlay is displayed, and a displayed overlay shows the
\* details of the event whose surface was most recently entered and not yet
\* left (the event recorded by that mouse-enter).
C23_HoverOverlay ==
  Idle =>
    LET shown == { c \in Days \X (1 .. MaxFeedLen) : PopupShown(c[1], c[2]) }
    IN  /\ Cardinality(shown) <= 1
        /\ \A c \in shown : filteredEvents[c[1]][c[2]] = hoveredEvent.event

\* ---------------------------------------------------------------------------
\* C24: feed completion interleaved with navigation. The feed completes at
\* most once per mount (no navigation starts another request), and once it
\* has completed successfully and the effects of the last render have run,
\* the bucket mapping is the bucketing of the whole fetched feed against the
\* cursor displayed in that state, whatever navigations came before or after.
FeedArrived == fetchState # "pending" /\ ~FetchFails([kind |-> fetchState])

Bucketed ==
  /\ ~crashed
  /\ ~FilterThrows(allEvents)
  /\ filteredEvents = FilterForMonth(allEvents, currentDate)

C24_FeedBuckets ==
  [][/\ fetchState # "pending" => fetchState' = fetchState /\ allEvents' = allEvents
     /\ (FeedArrived' /\ ~filterPending') => Bucketed']_vars

\* ---------------------------------------------------------------------------
\* C25: grid and buckets agree in every rendered state. Whenever the page is
\* rendered, the bucket mapping drawn into the cells is a bucketing against
\* the month cursor that the day grid and the title are built from: of the
\* fetched feed, or of the empty mapping it held before the feed arrived.
C25_GridMatchesBuckets ==
  (~crashed /\ ~FilterThrows(allEvents)) =>
     \/ filteredEvents = FilterForMonth(<<>>, currentDate)
     \/ filteredEvents = FilterForMonth(allEvents, currentDate)

\* ---------------------------------------------------------------------------
\* C26: month navigation round trip. 'previous' directly followed by 'next',
\* and 'next' directly followed by 'previous', display the year and month
\* that were displayed before the two clicks.
C26_RoundTrip ==
  [][/\ (lastOp.op = "goToPreviousMonth" /\ lastOp'.op = "goToNextMonth")
          => MonthIndex(currentDate') = MonthIndex(lastOp.a)
     /\ (lastOp.op = "goToNextMonth" /\ lastOp'.op = "goToPreviousMonth")
          => MonthIndex(currentDate') = MonthIndex(lastOp.a)]_vars

(***************************************************************************)
(* The date picker inside the form: picking, submitting, settling          *)
(***************************************************************************)
\* every field but the date is filled in; no date has been picked yet
DraftWithoutDate ==
  [name |-> <<"X">>, price |-> <<>>, description |-> <<>>, link |-> LinkTyped, kids |-> "null",
   location |-> <<"Y">>, date |-> <<>>, time |-> Time1, organization |-> <<"X">>,
   email |-> EmailTyped]

InitPicker ==
  /\ CalendarInit({MakeDay(2024, 0, 1)}) /\ isMobile = FALSE
  /\ formData = DraftWithoutDate
  /\ errors = NoErrors
  /\ isSubmitted = FALSE
  /\ isSubmitting = FALSE
  /\ apiError = ""
  /\ inflight = <<>>
  /\ timers = 0
  /\ formOp = FormOp("handleChange")
  /\ TimeSelectorInit
  /\ DatePickerInit(PickerTodays, PickerOffsets)
  /\ NavigationInit({PathSubmitEvent})

NextPicker ==
  \/ toggleDatePicker /\ UNCHANGED <<calVars, formVars, timeVars, navVars>>
  \/ (\E d \in {-1, 1} : navigateMonth(d, PickerFirstMonth, PickerFirstMonth + 2))
       /\ UNCHANGED <<calVars, formVars, timeVars, navVars>>
  \/ (\E dayObj \in {c \in DayCells : c.day \in PickerClickDays} : dayCellClick(dayObj))
       /\ UNCHANGED <<calVars, timeVars, navVars>>
  \/ handleSubmit /\ UNCHANGED <<calVars, widgetVars>>
  \/ (\E resp \in PostResponses : postSettles(resp)) /\ UNCHANGED <<calVars, widgetVars>>
  \/ hideSuccess /\ UNCHANGED <<calVars, widgetVars>>

SpecPicker == InitPicker /\ [][NextPicker]_vars

\* ---------------------------------------------------------------------------
\* C27: the date selector agrees with the draft. In every state the date
\* selector displays a selected date exactly when the draft's date field is
\* non-empty; after a successful submission has wiped the draft it shows none.
C27_SelectorAgrees == (selectedDate # <<>>) <=> (formData.date # <<>>)

\* ---------------------------------------------------------------------------
\* C28: the draft is frozen while submitting. From the start of a valid
\* submit until its request settles no user action changes a field of the
\* draft, so the draft on screen is the draft the request was built from.
C28_DraftFrozen == isSubmitting => formData = Head(inflight).draft

\* ---------------------------------------------------------------------------
\* C29: the success confirmation and the submit-failed banner are mutually
\* exclusive: in no state are both displayed.
C29_ConfirmationOrBanner == ~(isSubmitted /\ apiError # "")

(***************************************************************************)
(* The submission form under the assumption that every POST settles        *)
(***************************************************************************)
\* fetch resolves or rejects: the continuation of handleSubmit is run
PostSettlesEventually ==
  WF_vars((\E resp \in PostResponses : postSettles(resp)) /\ UNCHANGED <<calVars, widgetVars>>)

SpecFormFair == InitForm /\ [][NextForm]_vars /\ PostSettlesEventually

\* ---------------------------------------------------------------------------
\* C30: submit always completes. If every issued POST eventually settles,
\* every submission that sets the submitting flag eventually clears it, so the
\* form never stays disabled for ever.
C30_SubmitCompletes == isSubmitting ~> ~isSubmitting

\* a success body that was not valid JSON has been handled: the flag is clear
C30_Witness ==
  /\ formOp.op = "okNotJson"
  /\ ~isSubmitting
  /\ inflight = <<>>

\* the flag was cleared after a rejected request as well
C30_WitnessReject ==
  /\ formOp.op = "reject"
  /\ ~isSubmitting

====
